---------------------------- MODULE Spec2Model ----------------------------
(***************************************************************************)
(* Dead-hand switch engine of igrisai_mcp.                                 *)
(*                                                                         *)
(*   CronScheduler  (cronScheduler.ts, setTimeout version)                 *)
(*   DeadHandServer (deadHandServer.ts, first class in the file)           *)
(*                                                                         *)
(* Node runs every handler on one thread: a handler runs without           *)
(* interruption from one await on an I/O promise to the next.  Each action *)
(* below is one such uninterrupted segment.  An await on a function that   *)
(* performs no I/O (resetDeadHandTimer) only yields to the microtask       *)
(* queue, so the code after it belongs to the same segment.                *)
(***************************************************************************)
EXTENDS Integers, Sequences, FiniteSets, Bags, TLC

(***************************************************************************)
(* Bounds.                                                                 *)
(***************************************************************************)
\* Date.now() takes the values 0..MaxTime (one unit = one second of the model).
MaxTime == 2
\* at most MaxArms arm requests are accepted in a run.
MaxArms == 2
\* The longest list of token balances a plan is built from.
MaxTokens == 2

Users == {"0xaa", "0xbb"}
Beneficiaries == {"0xbe"}
\* the values delegation.timeout takes, in seconds
Timeouts == {1, 2}
Times == 0..MaxTime

\* jobId = `deadhand_${userAddress}_${Date.now()}`
JobIds == Users \X Times
\* The users' addresses as they are stored, and the first one spelled in
\* upper-case hex digits.
Spellings == Users \cup {"0xAA"}
jobIdOf(userAddress, t) == <<userAddress, t>>

NoJob == [none |-> "job"]
NoJobId == <<"", -1>>
NoHandle == [none |-> "handle"]
NoCycle == [none |-> "cycle"]
NoDelegation == [none |-> "delegation"]
NoPlan == [none |-> "plan"]

Delegations == [timeout : Timeouts, beneficiaryAddress : Beneficiaries]

\* Rows of the delegations table whose timeout is not positive, which the
\* table's schema (timeout INTEGER NOT NULL) admits.
NonPositiveTimeouts == {0}
LaxDelegations ==
    [timeout : Timeouts \cup NonPositiveTimeouts,
     beneficiaryAddress : Beneficiaries]

\* Addresses a request can carry besides those of the users.
MalformedAddresses == {"", "aa", "0xzz", "0xaaa"}
RequestAddresses == Users \cup MalformedAddresses

VARIABLES
    now,             \* Date.now()
    jobs,            \* CronScheduler.jobs : jobId -> CronJob
    scheduledTasks,  \* CronScheduler.scheduledTasks : jobId -> NodeJS.Timeout
    timers,          \* bag of the setTimeout handles that are still pending
    cycles,          \* timer callbacks in progress : jobId -> position
    response,        \* HTTP status of the last POST /initiate-deadhand
    holders,         \* the users the delegation table has a row for
    triggered,       \* history: a cycle of the user ended on the trigger
                     \* path and no arm request has succeeded since
    arms,            \* history: number of arm requests accepted so far
    emitted,         \* the WebSocket messages the last handler segment that
                     \* broadcast anything has broadcast, and for which user
    table,           \* the rows the delegation table may hold for a holder
    userOps,         \* number of kernelClient.sendUserOperation calls made
    plan             \* the state of the part a specification runs next to or
                     \* without the scheduler: the executeDeadHandSwitch call
                     \* in progress, a call of another function, the stopped
                     \* server, a connection registry

vars == <<now, jobs, scheduledTasks, timers, cycles, response, holders,
          triggered, arms, emitted, table, userOps, plan>>

\* What the handlers of DeadHandServer and CronScheduler never write.
aside == <<table, userOps, plan>>

\* The three fields of CronScheduler and the event loop's timer heap.
Sched == [jobs |-> jobs, scheduledTasks |-> scheduledTasks, timers |-> timers]

(***************************************************************************)
(* CronScheduler                                                           *)
(***************************************************************************)
Min(S) == CHOOSE x \in S : \A y \in S : x <= y

\* clearTimeout that leaves the timer pending.
clearTimeoutIgnored(T, h) == T

\* clearTimeout(h): a pending timer is removed, anything else is ignored.
clearTimeout(T, h) ==
    IF h # NoHandle /\ BagIn(h, T) THEN T (-) SetToBag({h}) ELSE T

\* getJobByUserAddress with the isExecuted test the wrong way round.
getJobByUserAddressExecuted(J, userAddress) ==
    LET match == {id \in DOMAIN J : /\ J[id] # NoJob
                                  /\ J[id].userAddress = userAddress
                                  /\ J[id].isExecuted}
    IN  IF match = {} THEN NoJobId
        ELSE jobIdOf(userAddress, Min({id[2] : id \in match}))

\* Array.from(jobs.values()).find(job => job.userAddress === userAddress
\*                                       && !job.isExecuted)
\* find returns the first match in insertion order, i.e. the oldest job.
getJobByUserAddress(J, userAddress) ==
    LET match == {id \in DOMAIN J : /\ J[id] # NoJob
                                  /\ J[id].userAddress = userAddress
                                  /\ ~J[id].isExecuted}
    IN  IF match = {} THEN NoJobId
        ELSE jobIdOf(userAddress, Min({id[2] : id \in match}))

scheduleDeadHandCheck(S, userAddress, timeoutSeconds, t) ==
    LET jobId == jobIdOf(userAddress, t)
        job == [userAddress |-> userAddress,
                scheduledAt |-> t + timeoutSeconds,
                timeoutSeconds |-> timeoutSeconds,
                isExecuted |-> FALSE,
                resetFrom |-> -1]        \* history, see ResetBy
        timeoutId == [id |-> jobId, due |-> t + timeoutSeconds]
    IN  [jobs |-> [S.jobs EXCEPT ![jobId] = job],
         scheduledTasks |-> [S.scheduledTasks EXCEPT ![jobId] = timeoutId],
         timers |-> S.timers (+) SetToBag({timeoutId})]

\* cancelDeadHandCheck that deletes the timer handle and leaves the job.
cancelDeadHandCheckHandleOnly(S, jobId) ==
    IF jobId \in DOMAIN S.jobs /\ S.scheduledTasks[jobId] # NoHandle
    THEN [S |-> [jobs |-> S.jobs,
                 scheduledTasks |-> [S.scheduledTasks EXCEPT ![jobId] = NoHandle],
                 timers |-> clearTimeout(S.timers, S.scheduledTasks[jobId])],
          ret |-> TRUE]
    ELSE [S |-> S, ret |-> FALSE]

\* Returns the scheduler after the call and the boolean the call returns.
cancelDeadHandCheck(S, jobId) ==
    IF jobId \in DOMAIN S.jobs /\ S.scheduledTasks[jobId] # NoHandle
    THEN [S |-> [jobs |-> [S.jobs EXCEPT ![jobId] = NoJob],
                 scheduledTasks |-> [S.scheduledTasks EXCEPT ![jobId] = NoHandle],
                 timers |-> clearTimeout(S.timers, S.scheduledTasks[jobId])],
          ret |-> TRUE]
    ELSE [S |-> S, ret |-> FALSE]

\* cleanupJob that removes by user address instead of by job id.
cleanupJobByUser(S, jobId) ==
    [jobs |-> [id \in DOMAIN S.jobs |->
                  IF id[1] = jobId[1] THEN NoJob ELSE S.jobs[id]],
     scheduledTasks |-> [id \in DOMAIN S.jobs |->
                  IF id[1] = jobId[1] THEN NoHandle ELSE S.scheduledTasks[id]],
     timers |-> clearTimeout(S.timers, S.scheduledTasks[jobId])]

cleanupJob(S, jobId) ==
    [jobs |-> [S.jobs EXCEPT ![jobId] = NoJob],
     scheduledTasks |-> [S.scheduledTasks EXCEPT ![jobId] = NoHandle],
     timers |-> clearTimeout(S.timers, S.scheduledTasks[jobId])]

\* The tail of the timer callback, on either branch of its try/catch:
\*     job.isExecuted = true; this.cleanupJob(jobId);
\* job is the object the callback closed over; it is the one in the map
\* unless the entry was deleted in the meantime.
callbackEpilogue(S, jobId) ==
    LET marked == IF S.jobs[jobId] # NoJob
                  THEN [S EXCEPT !.jobs[jobId].isExecuted = TRUE]
                  ELSE S
    IN  cleanupJob(marked, jobId)

(***************************************************************************)
(* DeadHandServer                                                          *)
(***************************************************************************)
\* resetDeadHandTimer: cancel whatever job getJobByUserAddress finds for the
\* user, then schedule a new one.  There is no await in it.
resetDeadHandTimer(S, userAddress, timeoutSeconds, t) ==
    LET existingJob == getJobByUserAddress(S.jobs, userAddress)
        S1 == IF existingJob # NoJobId
              THEN cancelDeadHandCheck(S, existingJob).S
              ELSE S
    IN  scheduleDeadHandCheck(S1, userAddress, timeoutSeconds, t)

(***************************************************************************)
(* Activity oracle.  A response of the AI is a sequence of words; the      *)
(* indicator phrases are the word sequences of the source, and             *)
(* String.includes is the occurrence of a phrase as a contiguous run.      *)
(***************************************************************************)
AIResponses ==
    { <<>>, <<"ok">>, <<"Transfer", "found">>, <<"no", "transfer", "found">>,
      <<"No", "activity">> }

toLowerCase(w) ==
    CASE w = "Transfer" -> "transfer"
      [] w = "No" -> "no"
      [] w = "0xEEEE" -> "0xeeee"
      [] w = "0xDa1" -> "0xda1"
      [] w = "0xAA" -> "0xaa"
      [] OTHER -> w
lowered(resp) == [i \in 1..Len(resp) |-> toLowerCase(resp[i])]

includes(resp, phrase) ==
    \E i \in 1..(Len(resp) - Len(phrase) + 1) :
        SubSeq(resp, i, i + Len(phrase) - 1) = phrase

activityIndicators ==
    { <<"transfer", "found">>, <<"transaction", "found">>,
      <<"activity", "found">>, <<"transfers", "identified">>,
      <<"transactions", "identified">>, <<"received">>, <<"sent">>,
      <<"transfer">>, <<"transaction">> }

noActivityIndicators ==
    { <<"no", "transfer">>, <<"no", "transaction">>, <<"no", "activity">>,
      <<"0", "transfer">>, <<"0", "transaction">>, <<"no", "results">>,
      <<"no", "data">> }

\* determineActivityFromAIResponse with the two loops in the other order.
determineActivityIndicatorsFirst(aiResponse) ==
    IF aiResponse = <<>> THEN FALSE
    ELSE LET lower == lowered(aiResponse)
         IN  IF \E ind \in activityIndicators : includes(lower, ind)
             THEN TRUE
             ELSE FALSE

determineActivityFromAIResponse(aiResponse) ==
    IF aiResponse = <<>> THEN FALSE
    ELSE LET lower == lowered(aiResponse)
         IN  IF \E ind \in noActivityIndicators : includes(lower, ind)
             THEN FALSE
             ELSE \E ind \in activityIndicators : includes(lower, ind)

\* What mcpClient.executeUserPrompt can do: reject, or resolve with a result
\* whose reasoning is some response.
OnchainOutcomes == {[throws |-> TRUE, reasoning |-> <<>>]} \cup
                   {[throws |-> FALSE, reasoning |-> r] : r \in AIResponses}

\* hypergraphClient.hasRecentTwitterActivity: activities.length > 0, and
\* false when the query fails.
hasRecentTwitterActivity(active, queryOk) ==
    IF queryOk THEN active ELSE FALSE

\* try { return await hypergraphClient.hasRecentTwitterActivity(..) }
\* catch { return false }
checkTwitterActivityFromHypergraph(active, queryOk) ==
    hasRecentTwitterActivity(active, queryOk)

\* const combinedActivityFound = activityFound || twitterActivityFound
combinedActivityFound(activityFound, twitterActivityFound) ==
    activityFound \/ twitterActivityFound

(***************************************************************************)
(* Initial state: a fresh server (Idle: the server without a plan in the  *)
(* making).  In Init one user has delegated, in InitPair both have.        *)
(***************************************************************************)
IdleFor(addresses) ==
    /\ now = 0
    /\ jobs = [id \in addresses \X Times |-> NoJob]
    /\ scheduledTasks = [id \in addresses \X Times |-> NoHandle]
    /\ timers = EmptyBag
    /\ cycles = [id \in addresses \X Times |-> NoCycle]
    /\ response = 0
    /\ triggered = [u \in addresses |-> FALSE]
    /\ arms = 0
    /\ emitted = [userAddress |-> "", messages |-> <<>>]
    /\ userOps = 0

Idle == IdleFor(Users)

Fresh == Idle /\ plan = NoPlan

Init == Fresh /\ holders = {"0xaa"} /\ table = Delegations

InitPair == Fresh /\ holders = Users /\ table = Delegations

\* The delegations table also holds rows with a timeout that is not positive.
InitLax == Fresh /\ holders = {"0xaa"} /\ table = LaxDelegations

SetSched(S) ==
    /\ jobs' = S.jobs
    /\ scheduledTasks' = S.scheduledTasks
    /\ timers' = S.timers

\* Time passes.
Tick ==
    /\ now < MaxTime
    /\ now' = now + 1
    /\ UNCHANGED <<jobs, scheduledTasks, timers, cycles, response, holders,
                   triggered, arms, emitted, aside>>

\* db.getDelegation(userAddress) reads a table that an external collaborator
\* owns and may change at any time: a call rejects when the query fails,
\* resolves with null (NoDelegation) when the table holds no row for the user
\* at that moment, and with the row otherwise.  A holder's row can be
\* rewritten or withdrawn between two reads.  The DatabaseManager looks a
\* user up by the lower-cased address.
DbOutcomes(userAddress) ==
    {[throws |-> TRUE, delegation |-> NoDelegation],
     [throws |-> FALSE, delegation |-> NoDelegation]} \cup
    {[throws |-> FALSE, delegation |-> d] :
         d \in IF toLowerCase(userAddress) \in holders THEN table ELSE {}}

getDelegation(userAddress, db) == db

\* The characters of a request address.  An address is abbreviated to two
\* hex digits after its 0x prefix.
characters(userAddress) ==
    CASE userAddress = "" -> <<>>
      [] userAddress = "aa" -> <<"a", "a">>
      [] userAddress = "0xzz" -> <<"0", "x", "z", "z">>
      [] userAddress = "0xaaa" -> <<"0", "x", "a", "a", "a">>
      [] userAddress = "0xaa" -> <<"0", "x", "a", "a">>
      [] userAddress = "0xbb" -> <<"0", "x", "b", "b">>
      [] userAddress = "0xAA" -> <<"0", "x", "A", "A">>

HexDigits ==
    {"0", "1", "2", "3", "4", "5", "6", "7", "8", "9",
     "a", "b", "c", "d", "e", "f", "A", "B", "C", "D", "E", "F"}

\* !userAddress is false and /^0x[a-fA-F0-9]{40}$/.test(userAddress) is true,
\* with two digits for the forty.
isAddress(userAddress) ==
    LET s == characters(userAddress)
    IN  /\ s # <<>>
        /\ Len(s) = 4
        /\ s[1] = "0"
        /\ s[2] = "x"
        /\ \A i \in 3..4 : s[i] \in HexDigits

\* initiateStatus without the check for an existing job.
initiateStatusNoConflict(J, userAddress, db) ==
    IF ~isAddress(userAddress) THEN 400
    ELSE IF getDelegation(userAddress, db).throws THEN 500
    ELSE IF getDelegation(userAddress, db).delegation = NoDelegation THEN 404
    ELSE 200

\* The status POST /initiate-deadhand answers with.
initiateStatus(J, userAddress, db) ==
    IF ~isAddress(userAddress) THEN 400
    ELSE IF getDelegation(userAddress, db).throws THEN 500
    ELSE IF getDelegation(userAddress, db).delegation = NoDelegation THEN 404
    ELSE IF getJobByUserAddress(J, userAddress) # NoJobId THEN 409
    ELSE 200

\* POST /initiate-deadhand.  A malformed address is answered before anything
\* is read; otherwise the handler awaits db.getDelegation and then runs to its
\* response without another await.
InitiateDeadHand(userAddress, db) ==
    LET delegation == getDelegation(userAddress, db).delegation
        status == initiateStatus(jobs, userAddress, db)
    IN  /\ arms < MaxArms
        /\ arms' = IF status = 200 THEN arms + 1 ELSE arms
        /\ response' = status
        /\ IF status = 200
           THEN /\ SetSched(scheduleDeadHandCheck(Sched, userAddress,
                                                  delegation.timeout, now))
                /\ triggered' = [triggered EXCEPT ![userAddress] = FALSE]
           ELSE UNCHANGED <<jobs, scheduledTasks, timers, triggered>>
        /\ UNCHANGED <<now, cycles, holders, emitted, aside>>

\* DELETE /jobs/:jobId.  cancelled records, for a job whose callback is
\* running, that the endpoint answered success.
CancelJob(jobId) ==
    LET c == cancelDeadHandCheck(Sched, jobId)
    IN  /\ SetSched(c.S)
        /\ cycles' = IF c.ret /\ cycles[jobId] # NoCycle
                     THEN [cycles EXCEPT ![jobId].cancelled = TRUE]
                     ELSE cycles
        /\ UNCHANGED <<now, response, holders, triggered, arms, emitted, aside>>

\* The setTimeout of a job expires: the timer callback starts and calls
\* handleDeadHandCheck, which awaits db.getDelegation.
TimerFire(h) ==
    /\ BagIn(h, timers)
    /\ now >= h.due
    /\ cycles[h.id] = NoCycle
    /\ timers' = timers (-) SetToBag({h})
    /\ cycles' = [cycles EXCEPT ![h.id] =
                     [pc |-> "getDelegation", userAddress |-> h.id[1],
                      fireTime |-> now, timeout |-> 0,
                      beneficiaryAddress |-> "", activityFound |-> FALSE,
                      cancelled |-> FALSE]]
    /\ UNCHANGED <<now, jobs, scheduledTasks, response, holders, triggered,
                   arms, emitted, aside>>

(***************************************************************************)
(* WebSocket messages.  A message is kept by its type and the fields the   *)
(* properties read; an ai_status_update by its statusType.                 *)
(***************************************************************************)
status(statusType) ==
    [type |-> "ai_status_update", statusType |-> statusType]

deadHandCheckResult(activityFound) ==
    [type |-> "deadhand_check_result", activityFound |-> activityFound]

timerResetEvent(timeoutSeconds, scheduledAt) ==
    [type |-> "deadhand_timer_reset", timeoutSeconds |-> timeoutSeconds,
     scheduledAt |-> scheduledAt]

\* The message broadcastDeadHandSwitchEvent builds.
deadHandSwitchEvent(beneficiaryAddress) ==
    [type |-> "deadhand_switch_triggered",
     beneficiaryAddress |-> beneficiaryAddress]

transactionsPrepared ==
    [type |-> "transactions_prepared", requiresUserAction |-> TRUE]

\* The messages of a handler segment, in the order they are broadcast.
Broadcast(userAddress, messages) ==
    emitted' = [userAddress |-> userAddress, messages |-> messages]

\* triggerDeadHandSwitch up to its first await, inside getUserTokenBalances.
triggerStartMessages ==
    <<status("deadhand_initiated"), status("beneficiary_address"),
      status("deadhand_step"), status("deadhand_step")>>

\* handleDeadHandCheck returns to the timer callback, which marks the job
\* executed and cleans it up.
Finish(S, jobId, onTriggerPath) ==
    /\ SetSched(callbackEpilogue(S, jobId))
    /\ cycles' = [cycles EXCEPT ![jobId] = NoCycle]
    /\ triggered' = IF onTriggerPath
                    THEN [triggered EXCEPT ![jobId[1]] = TRUE]
                    ELSE triggered

\* triggerDeadHandSwitch starts: it awaits getUserTokenBalances.  It is
\* passed the beneficiary; the check result, the timeout and the history of
\* the fire are not used again.
StartTrigger(jobId, c) ==
    /\ cycles' = [cycles EXCEPT ![jobId] =
                     [c EXCEPT !.pc = "balances", !.activityFound = FALSE,
                               !.timeout = 0, !.fireTime = 0]]
    /\ UNCHANGED <<jobs, scheduledTasks, timers, triggered>>

\* handleDeadHandCheck passing on the timeout the job was armed with instead
\* of the one it has just read.
DelegationResolvedStale(jobId, db) ==
    LET c == cycles[jobId]
        r == getDelegation(c.userAddress, db)
    IN  /\ c # NoCycle
        /\ c.pc = "getDelegation"
        /\ IF r.throws \/ r.delegation = NoDelegation
           THEN Finish(Sched, jobId, FALSE) /\ UNCHANGED emitted
           ELSE /\ Broadcast(c.userAddress, <<status("info"), status("prompt")>>)
                /\ cycles' = [cycles EXCEPT ![jobId] =
                      [c EXCEPT !.pc = "onchain",
                                !.timeout = jobs[jobId].timeoutSeconds,
                                !.beneficiaryAddress =
                                    r.delegation.beneficiaryAddress]]
                /\ UNCHANGED <<jobs, scheduledTasks, timers, triggered>>
        /\ UNCHANGED <<now, response, holders, arms, aside>>

\* handleDeadHandCheck resumes with the delegation: without one it logs and
\* returns; with one it starts executeDeadHandCheck, which awaits
\* mcpClient.executeUserPrompt.
DelegationResolved(jobId, db) ==
    LET c == cycles[jobId]
        r == getDelegation(c.userAddress, db)
    IN  /\ c # NoCycle
        /\ c.pc = "getDelegation"
        /\ IF r.throws \/ r.delegation = NoDelegation
           THEN Finish(Sched, jobId, FALSE) /\ UNCHANGED emitted
           ELSE /\ Broadcast(c.userAddress, <<status("info"), status("prompt")>>)
                /\ cycles' = [cycles EXCEPT ![jobId] =
                      [c EXCEPT !.pc = "onchain",
                                !.timeout = r.delegation.timeout,
                                !.beneficiaryAddress =
                                    r.delegation.beneficiaryAddress]]
                /\ UNCHANGED <<jobs, scheduledTasks, timers, triggered>>
        /\ UNCHANGED <<now, response, holders, arms, aside>>

\* History: the job a timer reset scheduled remembers when the timer that led
\* to the reset fired.
ResetBy(S, newId, fireTime) ==
    [S EXCEPT !.jobs[newId].resetFrom = fireTime]

\* A catch of executeDeadHandCheck that reports activity (fail-safe).
errorResultFound == [activityFound |-> TRUE]

\* The result the catch of executeDeadHandCheck returns.
errorResult == [activityFound |-> FALSE]

\* executeDeadHandCheck resumes from mcpClient.executeUserPrompt.  When the
\* call rejected, the catch returns errorResult without reaching the social
\* check, and handleDeadHandCheck branches on its activityFound.
OnchainResolved(jobId, o) ==
    LET c == cycles[jobId]
    IN  /\ c # NoCycle
        /\ c.pc = "onchain"
        /\ IF o.throws /\ errorResult.activityFound
           THEN /\ Finish(ResetBy(resetDeadHandTimer(Sched, c.userAddress,
                                                     c.timeout, now),
                                  jobIdOf(c.userAddress, now), c.fireTime),
                          jobId, FALSE)
                /\ Broadcast(c.userAddress,
                             <<status("error"),
                               timerResetEvent(c.timeout, now + c.timeout)>>)
           ELSE IF o.throws
           THEN /\ StartTrigger(jobId, [c EXCEPT !.activityFound =
                                                     errorResult.activityFound])
                /\ Broadcast(c.userAddress,
                             <<status("error")>> \o triggerStartMessages)
           ELSE /\ Broadcast(c.userAddress,
                             <<status("tool_usage"), status("reasoning"),
                               status("twitter_check")>>)
                /\ cycles' = [cycles EXCEPT ![jobId] =
                      [c EXCEPT !.pc = "social",
                                !.activityFound =
                                  determineActivityFromAIResponse(o.reasoning)]]
                /\ UNCHANGED <<jobs, scheduledTasks, timers, triggered>>
        /\ UNCHANGED <<now, response, holders, arms, aside>>

\* result.activityFound of executeDeadHandCheck once the social check returned.
activityFoundResult(c, socialHas, queryOk) ==
    combinedActivityFound(c.activityFound,
                          checkTwitterActivityFromHypergraph(socialHas, queryOk))

\* executeDeadHandCheck resumes from checkTwitterActivityFromHypergraph and
\* returns; handleDeadHandCheck branches on result.activityFound.  On the
\* reset branch everything up to the end of the timer callback runs at once.
SocialResolved(jobId, socialHas, queryOk) ==
    LET c == cycles[jobId]
    IN  /\ c # NoCycle
        /\ c.pc = "social"
        /\ IF activityFoundResult(c, socialHas, queryOk)
           THEN /\ Finish(ResetBy(resetDeadHandTimer(Sched, c.userAddress,
                                                     c.timeout, now),
                                  jobIdOf(c.userAddress, now), c.fireTime),
                          jobId, FALSE)
                /\ Broadcast(c.userAddress,
                             <<status("combined_analysis"),
                               deadHandCheckResult(TRUE),
                               timerResetEvent(c.timeout, now + c.timeout)>>)
           ELSE /\ StartTrigger(jobId, c)
                /\ Broadcast(c.userAddress,
                             <<status("combined_analysis"),
                               deadHandCheckResult(FALSE)>>
                             \o triggerStartMessages)
        /\ UNCHANGED <<now, response, holders, arms, aside>>

\* fetchTokenBalances as triggerDeadHandSwitch sees it through
\* getUserTokenBalances.  "throws": the balance service cannot be reached;
\* fetchTokenBalances catches the failure of each network and returns the
\* empty list, as it does for a wallet that holds nothing ("none").
BalancesOutcomes == {"throws", "none", "some"}

getUserTokenBalances(b) == IF b = "some" THEN 1 ELSE 0

\* triggerDeadHandSwitch resumes from getUserTokenBalances.  With no balances
\* the switch completes with no action; otherwise
\* lifiDeadHandService.executeDeadHandSwitch is awaited.
BalancesResolved(jobId, b) ==
    LET c == cycles[jobId]
    IN  /\ c # NoCycle
        /\ c.pc = "balances"
        /\ IF getUserTokenBalances(b) = 0
           THEN /\ Finish(Sched, jobId, TRUE)
                /\ Broadcast(c.userAddress,
                             <<status("deadhand_step"), status("deadhand_step"),
                               status("deadhand_completed")>>)
           ELSE /\ Broadcast(c.userAddress,
                             <<status("deadhand_step"), status("deadhand_step"),
                               status("deadhand_step")>>)
                /\ cycles' = [cycles EXCEPT ![jobId] = [c EXCEPT !.pc = "plan"]]
                /\ UNCHANGED <<jobs, scheduledTasks, timers, triggered>>
        /\ UNCHANGED <<now, response, holders, arms, aside>>

\* LifiDeadHandService.executeBatch sends the transactions as one user
\* operation through the kernel client; ops counts the user operations sent.
executeBatch(ops) == ops + 1

\* triggerDeadHandSwitch sending the prepared transactions itself and reporting
\* the switch completed.
PlanResolvedExecuting(jobId, planOk) ==
    LET c == cycles[jobId]
    IN  /\ c # NoCycle
        /\ c.pc = "plan"
        /\ Finish(Sched, jobId, TRUE)
        /\ userOps' = IF planOk THEN executeBatch(userOps) ELSE userOps
        /\ Broadcast(c.userAddress,
                     <<status("deadhand_step"), status("deadhand_completed")>>)
        /\ UNCHANGED <<now, response, holders, arms, table, plan>>

\* triggerDeadHandSwitch resumes from executeDeadHandSwitch and returns.
\* planOk: the result holds transactions (requiresUserAction); otherwise it
\* is the empty array, which takes the branch for executed results.
PlanResolved(jobId, planOk) ==
    LET c == cycles[jobId]
    IN  /\ c # NoCycle
        /\ c.pc = "plan"
        /\ Finish(Sched, jobId, TRUE)
        /\ Broadcast(c.userAddress,
                     IF planOk
                     THEN <<status("deadhand_step"),
                            status("deadhand_user_action_required"),
                            transactionsPrepared>>
                     ELSE <<status("deadhand_step"),
                            status("deadhand_completed")>>)
        /\ UNCHANGED <<now, response, holders, arms, aside>>

Next ==
    \/ Tick
    \/ \E u \in RequestAddresses : \E db \in DbOutcomes(u) :
          InitiateDeadHand(u, db)
    \/ \E id \in DOMAIN jobs : CancelJob(id)
    \/ \E h \in BagToSet(timers) : TimerFire(h)
    \/ \E id \in DOMAIN jobs : \E db \in DbOutcomes(id[1]) :
          DelegationResolved(id, db)
    \/ \E id \in DOMAIN jobs, o \in OnchainOutcomes : OnchainResolved(id, o)
    \/ \E id \in DOMAIN jobs, socialHas \in BOOLEAN, queryOk \in BOOLEAN :
          SocialResolved(id, socialHas, queryOk)
    \/ \E id \in DOMAIN jobs, b \in BalancesOutcomes : BalancesResolved(id, b)
    \/ \E id \in DOMAIN jobs, planOk \in BOOLEAN : PlanResolved(id, planOk)

Spec == Init /\ [][Next]_vars

SpecPair == InitPair /\ [][Next]_vars

SpecLax == InitLax /\ [][Next]_vars

\* Requests can also spell the holder's address in upper-case hex digits.
NextSpelled ==
    \/ Next
    \/ \E db \in DbOutcomes("0xAA") : InitiateDeadHand("0xAA", db)

InitSpelled ==
    /\ IdleFor(Spellings)
    /\ plan = NoPlan
    /\ holders = {"0xaa"}
    /\ table = Delegations

SpecSpelled == InitSpelled /\ [][NextSpelled]_vars

(***************************************************************************)
(* DeadHandServer.stop.                                                    *)
(***************************************************************************)
\* scheduledTasks.forEach(clearTimeout); scheduledTasks.clear(); jobs.clear()
cleanupAllJobs(S) ==
    LET left == {h \in BagToSet(S.timers) : S.scheduledTasks[h.id] # h}
    IN  [jobs |-> [id \in DOMAIN S.jobs |-> NoJob],
         scheduledTasks |-> [id \in DOMAIN S.scheduledTasks |-> NoHandle],
         timers |-> IF left = {} THEN EmptyBag
                    ELSE [h \in left |-> S.timers[h]]]

Stopped == [stopped |-> TRUE]

\* stop() up to the return of cleanupAllJobs; what follows in stop()
\* (disconnecting the MCP client, closing the pool and the HTTP server) shows
\* in NextStop as the steps that remain possible.  Callbacks in flight are
\* not touched.
Stop ==
    /\ plan = NoPlan
    /\ plan' = Stopped
    /\ SetSched(cleanupAllJobs(Sched))
    /\ UNCHANGED <<now, cycles, response, holders, triggered, arms, emitted,
                   table, userOps>>

\* Before stop the server runs as in Next.  After it no request is served,
\* the database and the MCP client only reject, and what does not depend on
\* them goes on: time, timers, the social query, the balance service and
\* the planner.
NextStop ==
    \/ plan = NoPlan /\ Next
    \/ Stop
    \/ /\ plan = Stopped
       /\ \/ Tick
          \/ \E h \in BagToSet(timers) : TimerFire(h)
          \/ \E id \in DOMAIN jobs :
                DelegationResolved(id, [throws |-> TRUE,
                                        delegation |-> NoDelegation])
          \/ \E id \in DOMAIN jobs :
                OnchainResolved(id, [throws |-> TRUE, reasoning |-> <<>>])
          \/ \E id \in DOMAIN jobs, socialHas \in BOOLEAN, queryOk \in BOOLEAN :
                SocialResolved(id, socialHas, queryOk)
          \/ \E id \in DOMAIN jobs, b \in BalancesOutcomes :
                BalancesResolved(id, b)
          \/ \E id \in DOMAIN jobs, planOk \in BOOLEAN : PlanResolved(id, planOk)

SpecStop == Init /\ [][NextStop]_vars

(***************************************************************************)
(* The WebSocket side of DeadHandServer: the connections map and the       *)
(* broadcast helpers.  plan holds, for each socket, its readyState (open), *)
(* the address of its last accepted registration message as the client     *)
(* spelled it (registeredAs, history), and its entry in the connections    *)
(* map; delivered is the set of sockets the step just taken sent a         *)
(* dead-hand event to.  A socket's connection id is its own.               *)
(***************************************************************************)
Sockets == {"s1", "s2"}

NoConnection == [none |-> "connection"]

InitNotify ==
    /\ Idle
    /\ holders = {"0xaa"}
    /\ table = Delegations
    /\ plan = [open |-> [ws \in Sockets |-> FALSE],
               closed |-> [ws \in Sockets |-> FALSE],
               registeredAs |-> [ws \in Sockets |-> ""],
               connections |-> [ws \in Sockets |-> NoConnection],
               delivered |-> {}]

NotifyFrame ==
    UNCHANGED <<now, jobs, scheduledTasks, timers, cycles, response, holders,
                triggered, arms, table, userOps>>

\* wss.on('connection')
Connect(ws) ==
    /\ ~plan.open[ws]
    /\ ~plan.closed[ws]
    /\ plan' = [plan EXCEPT !.open[ws] = TRUE, !.delivered = {}]
    /\ UNCHANGED emitted
    /\ NotifyFrame

\* ws.on('message'): a message without a well-formed userAddress is answered
\* with an error; otherwise the connection is stored under the socket's id
\* with the address in lower case.
Register(ws, userAddress) ==
    /\ plan.open[ws]
    /\ plan' = IF isAddress(userAddress)
               THEN [plan EXCEPT
                       !.connections[ws] =
                           [ws |-> ws, userAddress |-> toLowerCase(userAddress)],
                       !.registeredAs[ws] = userAddress,
                       !.delivered = {}]
               ELSE [plan EXCEPT !.delivered = {}]
    /\ UNCHANGED emitted
    /\ NotifyFrame

\* ws.on('close') / ws.on('error'): handleWebSocketDisconnection deletes the
\* entry under the id it computes from the socket at that moment; if the
\* remote address of the closed socket can no longer be read, that id is
\* another one and the entry stays (deleted = FALSE).
Disconnect(ws, deleted) ==
    /\ plan.open[ws]
    /\ plan' = [plan EXCEPT
                   !.open[ws] = FALSE,
                   !.closed[ws] = TRUE,
                   !.connections[ws] = IF deleted THEN NoConnection ELSE @,
                   !.delivered = {}]
    /\ UNCHANGED emitted
    /\ NotifyFrame

\* connections.forEach with no test of the connection's user.
recipientsAll(P, userAddress) ==
    {ws \in DOMAIN P.connections :
        /\ P.connections[ws] # NoConnection
        /\ P.open[P.connections[ws].ws]}

\* connections.forEach(connection => { if (connection.userAddress ===
\* userAddress.toLowerCase()) sendWebSocketMessage(connection.ws, message) }),
\* and sendWebSocketMessage sends when ws.readyState === 1.
recipients(P, userAddress) ==
    {ws \in DOMAIN P.connections :
        /\ P.connections[ws] # NoConnection
        /\ P.connections[ws].userAddress = toLowerCase(userAddress)
        /\ P.open[P.connections[ws].ws]}

\* The events the broadcast helpers send: broadcastAIStatus,
\* broadcastDeadHandResult, broadcastTimerResetEvent,
\* broadcastTransactionData.
Events ==
    {status("info"), deadHandCheckResult(FALSE), timerResetEvent(1, 1),
     transactionsPrepared}

BroadcastEvent(userAddress, message) ==
    /\ Broadcast(userAddress, <<message>>)
    /\ plan' = [plan EXCEPT !.delivered = recipients(plan, userAddress)]
    /\ NotifyFrame

NextNotify ==
    \/ \E ws \in Sockets : Connect(ws)
    \/ \E ws \in Sockets, userAddress \in Spellings \cup MalformedAddresses :
          Register(ws, userAddress)
    \/ \E ws \in Sockets, deleted \in BOOLEAN : Disconnect(ws, deleted)
    \/ \E userAddress \in Spellings, message \in Events :
          BroadcastEvent(userAddress, message)

SpecNotify == InitNotify /\ [][NextNotify]_vars

\* ---------------------------------------------------------------------------
\* Token monitoring of the token activity server: connections, their
\* subscribed tokens and the monitoring intervals.

MonitoredTokens == {"t1", "t2"}

\* The ids Math.random().toString(36).substring(7) produces; "r0" stands for
\* a fresh id the bounded connections map never stores under.
RandomIds == {"r1", "r2"}

ConnectionIds == Sockets \cup RandomIds

\* plan.url is the socket's url (empty for a socket without one),
\* plan.subscribed the tokens a socket asked for and has neither
\* unsubscribed from nor left by closing, plan.running the number of
\* intervals set and not cleared for a token.
InitMonitor ==
    /\ Idle
    /\ holders = {"0xaa"}
    /\ table = Delegations
    /\ plan = [open |-> [ws \in Sockets |-> FALSE],
               closed |-> [ws \in Sockets |-> FALSE],
               url |-> [ws \in Sockets |-> ""],
               subscribed |-> [ws \in Sockets |-> {}],
               connections |-> [id \in ConnectionIds |-> NoConnection],
               activityIntervals |-> [t \in MonitoredTokens |-> FALSE],
               running |-> [t \in MonitoredTokens |-> 0]]

\* wss.on('connection'): the socket arrives with or without a url.
Accept(ws, url) ==
    /\ ~plan.open[ws]
    /\ ~plan.closed[ws]
    /\ plan' = [plan EXCEPT !.open[ws] = TRUE, !.url[ws] = url]
    /\ UNCHANGED emitted
    /\ NotifyFrame

\* ws.url || Math.random().toString(36).substring(7): the url when there is
\* one, otherwise an id no earlier call produced.
getConnectionId(P, ws) ==
    IF P.url[ws] # "" THEN P.url[ws]
    ELSE IF \E r \in RandomIds : P.connections[r] = NoConnection
         THEN CHOOSE r \in RandomIds : P.connections[r] = NoConnection
         ELSE "r0"

\* connections.get(connectionId)
connectionOf(P, connectionId) ==
    IF connectionId \in DOMAIN P.connections
    THEN P.connections[connectionId]
    ELSE NoConnection

startTokenMonitoring(P, tokenAddress) ==
    [P EXCEPT !.running[tokenAddress] = @ + 1,
              !.activityIntervals[tokenAddress] = TRUE]

stopTokenMonitoring(P, tokenAddress) ==
    IF P.activityIntervals[tokenAddress]
    THEN [P EXCEPT !.running[tokenAddress] = @ - 1,
                   !.activityIntervals[tokenAddress] = FALSE]
    ELSE P

\* Array.from(connections.values()).some(conn => conn !== connection &&
\* conn.subscribedTokens.has(tokenAddress)); handleTokenUnsubscription has no
\* conn !== connection test and passes an id of no connection.
hasOtherSubscribers(P, connectionId, tokenAddress) ==
    \E id \in DOMAIN P.connections :
        /\ id # connectionId
        /\ P.connections[id] # NoConnection
        /\ tokenAddress \in P.connections[id].subscribedTokens

\* handleMessage 'subscribe_token_activity' -> handleTokenSubscription. The
\* entry is stored only while the bounded map has room for its id.
handleTokenSubscription(ws, userAddress, tokenAddress) ==
    /\ plan.open[ws]
    /\ LET connectionId == getConnectionId(plan, ws)
           P1 == IF plan.connections[connectionId] = NoConnection
                 THEN [plan EXCEPT !.connections[connectionId] =
                          [ws |-> ws, subscribedTokens |-> {}]]
                 ELSE plan
           P2 == [P1 EXCEPT !.connections[connectionId].subscribedTokens =
                                @ \cup {tokenAddress}]
           P3 == IF ~P2.activityIntervals[tokenAddress]
                 THEN startTokenMonitoring(P2, tokenAddress)
                 ELSE P2
       IN  IF userAddress = "" \/ tokenAddress = ""
           THEN plan' = plan
           ELSE /\ connectionId \in ConnectionIds
                /\ plan' = [P3 EXCEPT !.subscribed[ws] = @ \cup {tokenAddress}]
    /\ UNCHANGED emitted
    /\ NotifyFrame

\* handleMessage 'unsubscribe_token_activity' -> handleTokenUnsubscription
handleTokenUnsubscription(ws, userAddress, tokenAddress) ==
    /\ plan.open[ws]
    /\ LET connectionId == getConnectionId(plan, ws)
           connection == connectionOf(plan, connectionId)
           P1 == [plan EXCEPT !.connections[connectionId].subscribedTokens =
                                  @ \ {tokenAddress}]
           P2 == IF ~hasOtherSubscribers(P1, "", tokenAddress)
                 THEN stopTokenMonitoring(P1, tokenAddress)
                 ELSE P1
       IN  IF userAddress = "" \/ tokenAddress = ""
           THEN plan' = plan
           ELSE plan' = [(IF connection # NoConnection THEN P2 ELSE plan)
                            EXCEPT !.subscribed[ws] = @ \ {tokenAddress}]
    /\ UNCHANGED emitted
    /\ NotifyFrame

RECURSIVE stopUnsubscribed(_, _, _)
\* connection.subscribedTokens.forEach(tokenAddress => { if
\* (!hasOtherSubscribers) stopTokenMonitoring(tokenAddress) })
stopUnsubscribed(P, connectionId, tokens) ==
    IF tokens = {} THEN P
    ELSE LET tokenAddress == CHOOSE t \in tokens : TRUE
         IN  stopUnsubscribed(
                 IF ~hasOtherSubscribers(P, connectionId, tokenAddress)
                 THEN stopTokenMonitoring(P, tokenAddress)
                 ELSE P,
                 connectionId, tokens \ {tokenAddress})

\* ws.on('close') / ws.on('error') -> handleDisconnection
handleDisconnection(ws) ==
    /\ plan.open[ws]
    /\ LET connectionId == getConnectionId(plan, ws)
           connection == connectionOf(plan, connectionId)
           P1 == stopUnsubscribed(plan, connectionId,
                                  connection.subscribedTokens)
           P2 == [P1 EXCEPT !.connections[connectionId] = NoConnection]
       IN  plan' = [(IF connection # NoConnection THEN P2 ELSE plan)
                       EXCEPT !.open[ws] = FALSE,
                              !.closed[ws] = TRUE,
                              !.subscribed[ws] = {}]
    /\ UNCHANGED emitted
    /\ NotifyFrame

NextMonitor ==
    \/ \E ws \in Sockets : \E url \in {"", ws} : Accept(ws, url)
    \/ \E ws \in Sockets, userAddress \in {"", "0xaa"},
          tokenAddress \in MonitoredTokens \cup {""} :
          handleTokenSubscription(ws, userAddress, tokenAddress)
    \/ \E ws \in Sockets, userAddress \in {"", "0xaa"},
          tokenAddress \in MonitoredTokens \cup {""} :
          handleTokenUnsubscription(ws, userAddress, tokenAddress)
    \/ \E ws \in Sockets : handleDisconnection(ws)

SpecMonitor == InitMonitor /\ [][NextMonitor]_vars

\* ---------------------------------------------------------------------------
\* DatabaseService.getDeadHandConfig: the query of the user's configuration
\* with its retries.  plan.at is the await the call stands at, plan.log the
\* outcome of every attempt so far, plan.released the number of clients
\* given back to the pool.

maxRetries == 3

\* null
NoConfig == [none |-> "config"]

\* The row of dead_hand_configs read for an address.
configRow(address) == [userAddress |-> address, isActive |-> TRUE]

InitConfig ==
    /\ Idle
    /\ holders = {"0xaa"}
    /\ table = Delegations
    /\ \E userAddress \in Spellings, configs \in SUBSET {"0xaa", "0xbb"} :
          plan = [userAddress |-> userAddress, configs |-> configs,
                  attempt |-> 1, at |-> "connect", log |-> <<>>,
                  released |-> 0, value |-> NoConfig]

ConfigFrame ==
    UNCHANGED <<now, jobs, scheduledTasks, timers, cycles, response, holders,
                triggered, arms, emitted, table, userOps>>

\* catch (error) of an attempt that was at await `at`, with client.release()
\* first when the client had been connected: wait a second when
\* attempt < maxRetries, otherwise leave the loop and throw.
catchAttemptOnceMore(p, failure) ==
    [p EXCEPT !.log = Append(@, failure),
              !.released = IF failure = "query failed" THEN @ + 1 ELSE @,
              !.at = IF p.attempt <= maxRetries THEN "wait" ELSE "thrown"]

catchAttempt(p, failure) ==
    [p EXCEPT !.log = Append(@, failure),
              !.released = IF failure = "query failed" THEN @ + 1 ELSE @,
              !.at = IF p.attempt < maxRetries THEN "wait" ELSE "thrown"]

\* await this.pool.connect() rejects
PoolConnectRejects ==
    /\ plan.at = "connect"
    /\ plan' = catchAttempt(plan, "connect failed")
    /\ ConfigFrame

\* await this.pool.connect() resolves
PoolConnectResolves ==
    /\ plan.at = "connect"
    /\ plan' = [plan EXCEPT !.at = "query"]
    /\ ConfigFrame

\* await client.query(...) rejects
QueryRejects ==
    /\ plan.at = "query"
    /\ plan' = catchAttempt(plan, "query failed")
    /\ ConfigFrame

\* await client.query(query, [userAddress.toLowerCase()]) resolves: null when
\* result.rows is empty, otherwise the first row; client.release() in the
\* finally.
QueryResolves ==
    /\ plan.at = "query"
    /\ LET address == toLowerCase(plan.userAddress)
           found == address \in plan.configs
       IN  plan' = [plan EXCEPT
                       !.log = Append(@, IF found THEN "row" ELSE "no row"),
                       !.released = @ + 1,
                       !.value = IF found THEN configRow(address) ELSE NoConfig,
                       !.at = "returned"]
    /\ ConfigFrame

\* await new Promise(resolve => setTimeout(resolve, 1000)) resolves; attempt++
RetryDelayElapsed ==
    /\ plan.at = "wait"
    /\ plan' = [plan EXCEPT !.attempt = @ + 1, !.at = "connect"]
    /\ ConfigFrame

NextConfig ==
    \/ PoolConnectRejects
    \/ PoolConnectResolves
    \/ QueryRejects
    \/ QueryResolves
    \/ RetryDelayElapsed

SpecConfig == InitConfig /\ [][NextConfig]_vars

\* The event loop: the clock advances, and a timer that is due and is not
\* cleared has its callback started.
Fairness ==
    /\ WF_vars(Tick)
    /\ \A h \in [id : JobIds, due : 0..MaxTime] : WF_vars(TimerFire(h))

SpecFair == Init /\ [][Next]_vars /\ Fairness

(***************************************************************************)
(* The sweep planner, LifiDeadHandService.executeDeadHandSwitch.  A token  *)
(* balance is kept by its token's address and chain and the balance, an    *)
(* address by an abbreviation; balances are the integer strings of the     *)
(* Token API.  A transaction is {to, value, data}, its data kept as the    *)
(* fields that were encoded into it.                                       *)
(***************************************************************************)
Polygon == 137
Arbitrum == 42161

\* Addresses fetchTokenBalances can report: the zero address, the EEE
\* address in upper case, MATIC on Polygon and an ERC-20 contract.
TokenAddresses == {"0x0000", "0xEEEE", "0x1010", "0xDa1"}

\* Balances fetchTokenBalances reports (it leaves out zero balances).
Balances == {"5", "7"}

\* fetchTokenBalances reports tokens of its two networks only.
TokenBalances ==
    [address : TokenAddresses, chainId : {Polygon, Arbitrum},
     balance : Balances]

RECURSIVE ListsUpTo(_, _)
ListsUpTo(S, n) ==
    IF n = 0 THEN {<<>>}
    ELSE LET shorter == ListsUpTo(S, n - 1)
         IN  shorter \cup {Append(l, x) : l \in shorter, x \in S}

getTargetToken == [address |-> "0x0000", chainId |-> Arbitrum]

toString(chainId) ==
    CASE chainId = Polygon -> "137"
      [] chainId = Arbitrum -> "42161"

NoTransactionRequest == [none |-> "transactionRequest"]

\* What the quote service can do for a request: fail (no route, HTTP error),
\* or answer a quote with or without a transactionRequest and with or
\* without an approvalAddress.
QuoteOutcomes ==
    {[throws |-> TRUE, hasTransactionRequest |-> FALSE, approvalAddress |-> ""]}
    \cup [throws : {FALSE}, hasTransactionRequest : BOOLEAN,
          approvalAddress : {"", "0xsp"}]

\* getBridgeQuote resolved with the service's answer q: the quote for the
\* request fromChain, fromToken, fromAmount, fromAddress, toChain, toToken,
\* toAddress.  The transaction of a quote is kept by the request it answers.
getBridgeQuote(sellToken, buyToken, amount, recipient, sender, q) ==
    [approvalAddress |-> q.approvalAddress,
     transactionRequest |->
         IF q.hasTransactionRequest
         THEN [to |-> "0xlifi", value |-> 0,
               data |-> <<"route", toString(sellToken.chainId),
                          sellToken.address, amount, sender,
                          toString(Arbitrum), buyToken.address, recipient>>]
         ELSE NoTransactionRequest]

\* isGasToken comparing the address as it was reported.
isGasTokenAsReported(tokenAddress) ==
    tokenAddress \in {"0x0000", "0xeeee", "0x1010"}

isGasToken(tokenAddress) ==
    toLowerCase(tokenAddress) \in {"0x0000", "0xeeee", "0x1010"}

\* The call data of approve(spender, amount).
encodeERC20Approve(spender, amount) == <<"0x095ea7b3", spender, amount>>

\* The approval transaction pushed before the transaction of a quote, with
\* the quote's approvalAddress or the default spender.
approvalTransaction(token, quote) ==
    [to |-> token.address, value |-> 0,
     data |-> encodeERC20Approve(IF quote.approvalAddress # ""
                                 THEN quote.approvalAddress
                                 ELSE "0x1231",
                                 token.balance)]

\* The transactions pushed for a token once its quote is there.
quoteTransactions(token, quote) ==
    (IF ~isGasToken(token.address)
     THEN <<approvalTransaction(token, quote)>> ELSE <<>>)
    \o (IF quote.transactionRequest # NoTransactionRequest
        THEN <<quote.transactionRequest>> ELSE <<>>)

\* A token on Arbitrum that is the target token is passed over.
isTargetToken(token) ==
    toLowerCase(token.address) = toLowerCase(getTargetToken.address)

\* One turn of the loop over tokenBalances: allTransactions after it.  A
\* failing quote is caught and leaves allTransactions as it was.
processToken(allTransactions, userAddress, beneficiaryAddress, token, q) ==
    LET quote == getBridgeQuote(token, getTargetToken, token.balance,
                                beneficiaryAddress, userAddress, q)
    IN  IF token.chainId = Polygon
        THEN IF q.throws THEN allTransactions
             ELSE allTransactions \o quoteTransactions(token, quote)
        ELSE IF token.chainId # Arbitrum THEN allTransactions
        ELSE IF isTargetToken(token) THEN allTransactions
        ELSE IF q.throws THEN allTransactions
        ELSE allTransactions \o quoteTransactions(token, quote)

NoResult == [none |-> "result"]

\* What executeDeadHandSwitch returns after the loop.
switchResult(allTransactions) ==
    IF Len(allTransactions) = 0
    THEN [array |-> <<>>]
    ELSE [transactions |-> allTransactions, requiresUserAction |-> TRUE,
          chainId |-> Polygon, chainName |-> "Polygon"]

\* executeDeadHandSwitch has been called with a list of token balances.
\* log and answers are history: what became of each token and what the quote
\* service answered for it, in order.
InitPlan ==
    /\ Idle
    /\ holders = {"0xaa"}
    /\ table = Delegations
    /\ \E tokenBalances \in ListsUpTo(TokenBalances, MaxTokens),
          beneficiaryAddress \in Beneficiaries :
          plan = [userAddress |-> "0xaa",
                  beneficiaryAddress |-> beneficiaryAddress,
                  tokenBalances |-> tokenBalances, next |-> 1,
                  allTransactions |-> <<>>, log |-> <<>>, answers |-> <<>>,
                  result |-> NoResult]

PlanStep(token, q, entry) ==
    /\ plan' = [plan EXCEPT
                   !.next = plan.next + 1,
                   !.allTransactions =
                       processToken(plan.allTransactions, plan.userAddress,
                                    plan.beneficiaryAddress, token, q),
                   !.log = Append(plan.log, entry),
                   !.answers = Append(plan.answers, q)]
    /\ UNCHANGED <<now, jobs, scheduledTasks, timers, cycles, response,
                   holders, triggered, arms, emitted, table, userOps>>

InLoop == plan # NoPlan /\ plan.result = NoResult
             /\ plan.next <= Len(plan.tokenBalances)

logEntry(q) ==
    IF q.throws THEN "failed"
    ELSE IF q.hasTransactionRequest THEN "quoted"
    ELSE "quoted without transaction"

\* The turn for a token on Polygon, resumed from getBridgeQuote.
BridgeToken(q) ==
    /\ InLoop
    /\ plan.tokenBalances[plan.next].chainId = Polygon
    /\ PlanStep(plan.tokenBalances[plan.next], q, logEntry(q))

\* The turn for a token on Arbitrum other than the target, resumed from
\* getBridgeQuote.
SwapToken(q) ==
    /\ InLoop
    /\ plan.tokenBalances[plan.next].chainId = Arbitrum
    /\ ~isTargetToken(plan.tokenBalances[plan.next])
    /\ PlanStep(plan.tokenBalances[plan.next], q, logEntry(q))

\* The turn for a token that is passed over without a quote.
SkipToken ==
    /\ InLoop
    /\ plan.tokenBalances[plan.next].chainId # Polygon
    /\ \/ plan.tokenBalances[plan.next].chainId # Arbitrum
       \/ isTargetToken(plan.tokenBalances[plan.next])
    /\ PlanStep(plan.tokenBalances[plan.next],
                CHOOSE q \in QuoteOutcomes : q.throws, "skipped")

\* The loop is over and executeDeadHandSwitch returns.
ReturnPlan ==
    /\ plan # NoPlan
    /\ plan.result = NoResult
    /\ plan.next > Len(plan.tokenBalances)
    /\ plan' = [plan EXCEPT !.result = switchResult(plan.allTransactions)]
    /\ UNCHANGED <<now, jobs, scheduledTasks, timers, cycles, response,
                   holders, triggered, arms, emitted, table, userOps>>

NextPlan ==
    \/ \E q \in QuoteOutcomes : BridgeToken(q)
    \/ \E q \in QuoteOutcomes : SwapToken(q)
    \/ SkipToken
    \/ ReturnPlan

SpecPlan == InitPlan /\ [][NextPlan]_vars

(***************************************************************************)
(* The sweep from the wallet on: fetchTokenBalances, then the planner on   *)
(* what it returned.                                                       *)
(***************************************************************************)
\* The networks fetchTokenBalances asks for, in its order.
networks == <<Polygon, Arbitrum>>

\* The page size of the balances request (limit=50&page=1), scaled down so
\* that a wallet of a few tokens can hold more tokens on a network than one
\* page has room for.
limit == 1

\* What the Token API can report for a token of the wallet: its amount, which
\* can be zero.
WalletTokens ==
    [address : TokenAddresses, chainId : {Polygon, Arbitrum},
     balance : {"0", "5"}]

parseFloat(amount) ==
    CASE amount = "0" -> 0
      [] amount = "5" -> 5
      [] amount = "7" -> 7

\* data.data of the response for a network: page 1 of the wallet's tokens on
\* that network.
page(wallet, chainId) ==
    LET held == SelectSeq(wallet, LAMBDA t : t.chainId = chainId)
    IN  SubSeq(held, 1, IF Len(held) < limit THEN Len(held) ELSE limit)

\* fetchTokenBalances: for each network whose request is served, the tokens
\* of its page with a balance above zero; a network whose request fails
\* contributes nothing.
fetchTokenBalances(wallet, served) ==
    LET of(n) == IF served[networks[n]]
                 THEN SelectSeq(page(wallet, networks[n]),
                                LAMBDA t : parseFloat(t.balance) > 0)
                 ELSE <<>>
    IN  of(1) \o of(2)

\* wallet and served are what the user holds, each token once, and which
\* networks' requests are served; fetched tells that fetchTokenBalances has
\* returned.
InitSweep ==
    /\ Idle
    /\ holders = {"0xaa"}
    /\ table = Delegations
    /\ \E wallet \in {w \in ListsUpTo(WalletTokens, MaxTokens) :
                          \A i, j \in DOMAIN w :
                              (w[i].address = w[j].address
                               /\ w[i].chainId = w[j].chainId) => i = j},
          served \in [{Polygon, Arbitrum} -> BOOLEAN],
          beneficiaryAddress \in Beneficiaries :
          plan = [userAddress |-> "0xaa",
                  beneficiaryAddress |-> beneficiaryAddress,
                  wallet |-> wallet, served |-> served, fetched |-> FALSE,
                  tokenBalances |-> <<>>,
                  next |-> 1,
                  allTransactions |-> <<>>, log |-> <<>>, answers |-> <<>>,
                  result |-> NoResult]

\* getUserTokenBalances: fetchTokenBalances returns the list the planner is
\* then called with.
FetchTokenBalances ==
    /\ ~plan.fetched
    /\ plan' = [plan EXCEPT
                   !.fetched = TRUE,
                   !.tokenBalances = fetchTokenBalances(plan.wallet, plan.served)]
    /\ UNCHANGED <<now, jobs, scheduledTasks, timers, cycles, response,
                   holders, triggered, arms, emitted, table, userOps>>

NextSweep ==
    \/ FetchTokenBalances
    \/ plan.fetched /\ NextPlan

SpecSweep == InitSweep /\ [][NextSweep]_vars

(***************************************************************************)
(* determineActivityFromAIResponse on its own: a response of up to         *)
(* MaxWords words is drawn, and the function is applied to it.             *)
(***************************************************************************)
MaxWords == 3

Words == {"no", "No", "0", "transfer", "Transfer", "activity", "found",
          "sent", "ok"}

InitOracle ==
    /\ Idle
    /\ holders = {"0xaa"}
    /\ table = Delegations
    /\ \E aiResponse \in ListsUpTo(Words, MaxWords) :
          plan = [aiResponse |-> aiResponse, returned |-> <<>>]

\* The call: returned holds the boolean the function returned.
DetermineActivity ==
    /\ plan.returned = <<>>
    /\ plan' = [plan EXCEPT
                   !.returned = <<determineActivityFromAIResponse(plan.aiResponse)>>]
    /\ UNCHANGED <<now, jobs, scheduledTasks, timers, cycles, response,
                   holders, triggered, arms, emitted, table, userOps>>

SpecOracle == InitOracle /\ [][DetermineActivity]_vars

(***************************************************************************)
(* The social query on its own: HypergraphClient.getTwitterActivities over *)
(* the entities of the public space.  An entity is kept by the words of    *)
(* its name (NoName: it has none) and by its age in hours.                 *)
(***************************************************************************)
MaxEntities == 2

NoName == <<"undefined">>

EntityNames ==
    {<<"tweet", "0xaa">>, <<"tweet", "0xbb">>, <<"like">>,
     <<"note", "0xaa">>, NoName}

Entities == [name : EntityNames, age : {0, 5}]

\* Math.ceil(timeoutSeconds / 3600)
hoursBackOf(timeoutSeconds) == (timeoutSeconds + 3599) \div 3600

\* entity.name.match(/0x[a-fA-F0-9]{40}/): the first word of the name that is
\* an address, "" (null) when there is none.
extractUserAddressFromEntity(entity) ==
    LET at == {i \in DOMAIN entity.name : entity.name[i] \in Spellings}
    IN  IF at = {} THEN "" ELSE entity.name[Min(at)]

\* entity.name && entity.name.includes('tweet')
\*     || entity.name.includes('like') || entity.name.includes('retweet')
isTwitterActivity(entity) ==
    \/ includes(entity.name, <<"tweet">>)
    \/ includes(entity.name, <<"like">>)
    \/ includes(entity.name, <<"retweet">>)

\* getTwitterActivities: the activities built from data.entities.  The
\* test of an entity without a name throws, and so does a failed fetch; the
\* catch returns the empty list.  userAddress serves as the owner of an
\* entity whose name holds no address; hoursBack is only logged.
getTwitterActivities(entities, fetchOk, userAddress, hoursBack) ==
    IF ~fetchOk \/ \E i \in DOMAIN entities : entities[i].name = NoName
    THEN <<>>
    ELSE LET kept == SelectSeq(entities, isTwitterActivity)
         IN  [i \in DOMAIN kept |->
                 [userAddress |->
                      IF extractUserAddressFromEntity(kept[i]) # ""
                      THEN extractUserAddressFromEntity(kept[i])
                      ELSE userAddress,
                  age |-> kept[i].age]]

InitSocial ==
    /\ Idle
    /\ holders = {"0xaa"}
    /\ table = Delegations
    /\ \E entities \in ListsUpTo(Entities, MaxEntities),
          fetchOk \in BOOLEAN, timeoutSeconds \in Timeouts :
          plan = [userAddress |-> "0xaa", timeoutSeconds |-> timeoutSeconds,
                  entities |-> entities, fetchOk |-> fetchOk,
                  returned |-> <<>>]

\* checkTwitterActivityFromHypergraph(userAddress, timeoutSeconds)
CheckTwitterActivity ==
    /\ plan.returned = <<>>
    /\ plan' = [plan EXCEPT !.returned =
          <<checkTwitterActivityFromHypergraph(
                Len(getTwitterActivities(plan.entities, plan.fetchOk,
                                         plan.userAddress,
                                         hoursBackOf(plan.timeoutSeconds))) > 0,
                TRUE)>>]
    /\ UNCHANGED <<now, jobs, scheduledTasks, timers, cycles, response,
                   holders, triggered, arms, emitted, table, userOps>>

SpecSocial == InitSocial /\ [][CheckTwitterActivity]_vars

(***************************************************************************)
(* OpenRouterClient.selectToolForPrompt: the conversation loop, in the     *)
(* client that allows ten iterations and in the one that allows five.      *)
(* plan holds the locals of one call: iteration, consecutiveFailures and   *)
(* how the call ended (result); calls, streak and toolFailures are         *)
(* history: the model calls made, the model calls that have failed in a    *)
(* row, and the tool calls that failed.                                    *)
(***************************************************************************)
maxConsecutiveFailures == 3
conversationIterations == 10
toolsClientIterations == 5

InitLoop(iterations) ==
    /\ Idle
    /\ holders = {"0xaa"}
    /\ table = Delegations
    /\ plan = [iterations |-> iterations, iteration |-> 1,
               consecutiveFailures |-> 0, result |-> "pending",
               calls |-> 0, streak |-> 0, toolFailures |-> 0]

InLoopBody ==
    /\ plan.result = "pending"
    /\ plan.iteration <= plan.iterations
    /\ UNCHANGED <<now, jobs, scheduledTasks, timers, cycles, response,
                   holders, triggered, arms, emitted, table, userOps>>

\* The catch of the loop body, entered with the counter at failures.
catchIteration(p, failures) ==
    IF failures + 1 >= maxConsecutiveFailures
    THEN [p EXCEPT !.consecutiveFailures = failures + 1,
                   !.result = "circuit_breaker"]
    ELSE [p EXCEPT !.consecutiveFailures = failures + 1,
                   !.iteration = p.iteration + 1]

\* chatCompletionWithTools rejects: the catch runs with the counter as the
\* iteration found it.
ModelCallRejects ==
    /\ InLoopBody
    /\ plan' = catchIteration([plan EXCEPT !.calls = plan.calls + 1,
                                           !.streak = plan.streak + 1],
                              plan.consecutiveFailures)

\* chatCompletionWithTools resolves with a body without a choices array (it
\* returns response.data as it came): the counter is reset, then
\* response.choices[0] throws and the catch runs.
ModelResponseMalformed ==
    /\ InLoopBody
    /\ plan' = catchIteration([plan EXCEPT !.calls = plan.calls + 1,
                                           !.streak = 0],
                              0)

\* The message holds tool calls: each is executed inside its own try, a
\* failed one becomes a tool message, and the loop continues.
ModelCallsTools(failed) ==
    /\ InLoopBody
    /\ plan' = [plan EXCEPT !.calls = plan.calls + 1, !.streak = 0,
                            !.consecutiveFailures = 0,
                            !.toolFailures = plan.toolFailures + failed,
                            !.iteration = plan.iteration + 1]

\* The message holds no tool calls, with or without content: return.
ModelAnswers ==
    /\ InLoopBody
    /\ plan' = [plan EXCEPT !.calls = plan.calls + 1, !.streak = 0,
                            !.consecutiveFailures = 0,
                            !.result = "conversation_complete"]

\* The statement after the loop.
AfterLoop(result) ==
    /\ plan.result = "pending"
    /\ plan.iteration > plan.iterations
    /\ plan' = [plan EXCEPT !.result = result]
    /\ UNCHANGED <<now, jobs, scheduledTasks, timers, cycles, response,
                   holders, triggered, arms, emitted, table, userOps>>

\* The tool calls of one message that fail.
FailedToolCalls == 0..1

NextConversation ==
    \/ ModelCallRejects
    \/ ModelResponseMalformed
    \/ \E failed \in FailedToolCalls : ModelCallsTools(failed)
    \/ ModelAnswers
    \/ AfterLoop("conversation_complete")

SpecConversation ==
    InitLoop(conversationIterations) /\ [][NextConversation]_vars

NextToolsClient ==
    \/ ModelCallRejects
    \/ ModelResponseMalformed
    \/ \E failed \in FailedToolCalls : ModelCallsTools(failed)
    \/ ModelAnswers
    \/ AfterLoop("unexpected")

SpecToolsClient ==
    InitLoop(toolsClientIterations) /\ [][NextToolsClient]_vars

(***************************************************************************)
(* Properties.                                                             *)
(***************************************************************************)
\* The jobs of a user that are in the registry and not marked executed: what
\* getActiveJobs and getJobByUserAddress see.
Outstanding(u) ==
    {id \in JobIds : /\ jobs[id] # NoJob
                     /\ jobs[id].userAddress = u
                     /\ ~jobs[id].isExecuted}

\* The timer callbacks of a user that have started and not returned.
Running(u) == {id \in JobIds : cycles[id] # NoCycle /\ id[1] = u}

\* C1: whatever arm, fire, cancel and reset operations have run, the
\* scheduler holds at most one job per user address that is neither executed
\* nor cancelled.
C1_AtMostOneJobPerUser ==
    \A u \in Users : Cardinality(Outstanding(u)) <= 1

\* A user holds the job a timer reset installed while an earlier callback of
\* the same user, whose job was cancelled and replaced by a new arm request,
\* is still running.
C1_Witness ==
    \E u \in Users :
        /\ Running(u) # {}
        /\ \E id \in Outstanding(u) : jobs[id].resetFrom >= 0

\* C2: a job is consumed by its timer firing or by cancelDeadHandCheck, never
\* by both: no job whose callback has started is cancelled with success.
C2_NeverConsumedByBoth ==
    \A id \in JobIds : cycles[id] # NoCycle => ~cycles[id].cancelled

\* C3: once a fire whose check found no activity has taken the user to
\* Triggered (the sweep path ran, once), the user has no outstanding job
\* until a new arm request succeeds.
C3_NoJobAfterTriggered ==
    \A u \in Users : triggered[u] => Outstanding(u) = {}

\* The step in which the check of the callback of job id returns found = true
\* and handleDeadHandCheck resets the timer.
ResetStep(id, socialHas, queryOk) ==
    /\ SocialResolved(id, socialHas, queryOk)
    /\ activityFoundResult(cycles[id], socialHas, queryOk)

\* A timer is pending only for a job that is in the registry, not executed,
\* registered with that very timer, and whose callback has not started.
TimersOnlyForWaitingJobs ==
    \A h \in BagToSet(timers) :
        /\ CopiesIn(h, timers) = 1
        /\ scheduledTasks[h.id] = h
        /\ jobs[h.id] # NoJob
        /\ ~jobs[h.id].isExecuted
        /\ cycles[h.id] = NoCycle

\* C4 as stated: when the check of a fire returns found = true the user gets
\* a new job whose due time is the time the timer fired plus the timeout.
C4_DueAtFromFireTime ==
    [][\A id \in JobIds, socialHas \in BOOLEAN, queryOk \in BOOLEAN :
          ResetStep(id, socialHas, queryOk) =>
              LET new == jobIdOf(id[1], now)
              IN  /\ jobs'[new] # NoJob
                  /\ jobs'[new].scheduledAt =
                         cycles[id].fireTime + cycles[id].timeout]_vars

\* C4 amended: when the check of a fire returns found = true the user is left
\* with exactly one outstanding job, a new one, due the delegation's timeout
\* after the moment the reset runs (never earlier than fire time + timeout);
\* the new job and its timer survive the clean-up of the fired job, the fired
\* job is gone with its callback ended, and since a timer is pending only
\* for a job whose callback has not started, the fired job never fires again.
C4_ResetInstallsFreshJob ==
    /\ []TimersOnlyForWaitingJobs
    /\ [][\A id \in JobIds, socialHas \in BOOLEAN, queryOk \in BOOLEAN :
             ResetStep(id, socialHas, queryOk) =>
                 LET c == cycles[id]
                     new == jobIdOf(id[1], now)
                     timeoutId == [id |-> new, due |-> now + c.timeout]
                 IN  /\ new # id
                     /\ Outstanding(id[1])' = {new}
                     /\ jobs'[new].scheduledAt = now + c.timeout
                     /\ jobs'[new].scheduledAt >= c.fireTime + c.timeout
                     /\ scheduledTasks'[new] = timeoutId
                     /\ BagIn(timeoutId, timers')
                     /\ jobs'[id] = NoJob
                     /\ scheduledTasks'[id] = NoHandle
                     /\ cycles'[id] = NoCycle
                     /\ \A h \in BagToSet(timers') : h.id # id]_vars

\* A reset has installed a job that is due later than fire time + timeout,
\* and its timer is pending.
C4_Witness ==
    \E id \in JobIds :
        /\ jobs[id] # NoJob
        /\ jobs[id].resetFrom >= 0
        /\ jobs[id].scheduledAt > jobs[id].resetFrom + jobs[id].timeoutSeconds
        /\ BagIn(scheduledTasks[id], timers)

\* C5: whatever fails during the cycle a timer fire starts, the cycle ends
\* with the user Armed (an outstanding job exists) or Triggered (the cycle
\* took the sweep path).
C5_CycleEndsArmedOrTriggered ==
    [][\A id \in JobIds :
          (cycles[id] # NoCycle /\ cycles'[id] = NoCycle) =>
              \/ Outstanding(id[1])' # {}
              \/ cycles[id].pc \in {"balances", "plan"}]_vars

C7_CancelAfterFireReturnsFalse ==
    [][\A id \in JobIds :
          (cycles[id] # NoCycle /\ CancelJob(id)) =>
              ~cancelDeadHandCheck(Sched, id).ret]_vars

\* C8: a job is marked consumed before its callback runs, so that no job is
\* observable as outstanding while its callback is running.
C8_NotOutstandingDuringCallback ==
    \A id \in JobIds : cycles[id] # NoCycle => id \notin Outstanding(id[1])

\* C9: no second check cycle of a user starts while an earlier one of that
\* user is in progress.
C9_OneCyclePerUser ==
    \A u \in Users : Cardinality(Running(u)) <= 1

\* C10: the decision of a check is found = onchainFound \/ socialFound, a
\* source whose call failed counting as false: the cycle takes the trigger
\* branch exactly when neither source reports activity, whatever the social
\* index holds when the on-chain query fails.
C10_FoundIsOnchainOrSocial ==
    [][/\ \A id \in JobIds, o \in OnchainOutcomes :
             (OnchainResolved(id, o) /\ o.throws) =>
                 \A socialHas \in BOOLEAN, queryOk \in BOOLEAN :
                     (cycles'[id].pc = "balances") <=>
                         ~combinedActivityFound(FALSE,
                              checkTwitterActivityFromHypergraph(socialHas,
                                                                 queryOk))
       /\ \A id \in JobIds, socialHas \in BOOLEAN, queryOk \in BOOLEAN :
             SocialResolved(id, socialHas, queryOk) =>
                 (cycles'[id] # NoCycle /\ cycles'[id].pc = "balances") <=>
                     ~combinedActivityFound(cycles[id].activityFound,
                          checkTwitterActivityFromHypergraph(socialHas,
                                                             queryOk))]_vars

\* A step of the callback of job id that is on the trigger path.
TriggerPathStep(id) ==
    /\ cycles[id] # NoCycle
    /\ cycles[id].pc \in {"balances", "plan"}
    /\ cycles'[id] # cycles[id]

\* C11: when the on-chain query of a check fails, the error stays inside the
\* check: the callback goes on, on the trigger path, with the scheduler's
\* jobs and timers as they were and no timer reset broadcast; and a callback
\* on the trigger path stays on it to its end and installs no job.
C11_OracleErrorTriggers ==
    [][/\ \A id \in JobIds, o \in OnchainOutcomes :
             (OnchainResolved(id, o) /\ o.throws) =>
                 /\ cycles'[id] # NoCycle
                 /\ cycles'[id].pc = "balances"
                 /\ UNCHANGED <<jobs, scheduledTasks, timers>>
                 /\ \A i \in DOMAIN emitted'.messages :
                        emitted'.messages[i].type # "deadhand_timer_reset"
       /\ \A id \in JobIds :
             TriggerPathStep(id) =>
                 /\ \/ cycles'[id] = NoCycle
                    \/ cycles'[id].pc \in {"balances", "plan"}
                 /\ Outstanding(id[1])' \subseteq Outstanding(id[1])]_vars

\* The on-chain query of a check has just failed and its callback is on the
\* trigger path.
C11_Witness ==
    /\ emitted.messages # <<>>
    /\ emitted.messages[1] = status("error")
    /\ \E id \in Running(emitted.userAddress) : cycles[id].pc = "balances"

\* The number of messages of a type among the messages of a segment.
Count(messages, type) ==
    Cardinality({i \in DOMAIN messages : messages[i].type = type})

\* C19: the step that takes a user to Triggered broadcasts exactly one
\* deadhand_switch_triggered message for that user, and a reset broadcasts
\* exactly one deadhand_timer_reset message with the new timeout and due time.
C19_OneEventPerTransition ==
    [][/\ \A id \in JobIds :
             (TriggerPathStep(id) /\ cycles'[id] = NoCycle) =>
                 /\ emitted'.userAddress = id[1]
                 /\ Count(emitted'.messages, "deadhand_switch_triggered") = 1
       /\ \A id \in JobIds, socialHas \in BOOLEAN, queryOk \in BOOLEAN :
             ResetStep(id, socialHas, queryOk) =>
                 /\ emitted'.userAddress = id[1]
                 /\ Count(emitted'.messages, "deadhand_timer_reset") = 1
                 /\ \E i \in DOMAIN emitted'.messages :
                        emitted'.messages[i] =
                            timerResetEvent(
                                cycles[id].timeout,
                                jobs'[jobIdOf(id[1], now)].scheduledAt)]_vars

\* C20: every fire reads the delegation again, and the timeout given to the
\* activity check and to the timer reset and the beneficiary given to the
\* switch are those of the row read at that fire, not the timeout the job was
\* armed with: the read fixes them, the check keeps them, the reset installs a
\* job with that timeout and the switch starts with that beneficiary.
C20_FireTimeDelegation ==
    [][\A id \in JobIds :
          /\ \A db \in DbOutcomes(id[1]) :
                (DelegationResolved(id, db) /\ ~db.throws
                    /\ db.delegation # NoDelegation) =>
                    /\ cycles'[id].pc = "onchain"
                    /\ cycles'[id].timeout = db.delegation.timeout
                    /\ cycles'[id].beneficiaryAddress =
                           db.delegation.beneficiaryAddress
          /\ (cycles[id] # NoCycle /\ cycles[id].pc \in {"onchain", "social"}) =>
                /\ (cycles'[id] # NoCycle /\ cycles'[id].pc = "social") =>
                       /\ cycles'[id].timeout = cycles[id].timeout
                       /\ cycles'[id].beneficiaryAddress =
                              cycles[id].beneficiaryAddress
                /\ (cycles'[id] # NoCycle /\ cycles'[id].pc = "balances") =>
                       cycles'[id].beneficiaryAddress =
                           cycles[id].beneficiaryAddress
                /\ (\E socialHas \in BOOLEAN, queryOk \in BOOLEAN :
                        ResetStep(id, socialHas, queryOk)) =>
                       jobs'[jobIdOf(id[1], now)].timeoutSeconds =
                           cycles[id].timeout]_vars

\* A check is running with a timeout that differs from the one its job was
\* armed with.
C20_Witness ==
    \E id \in JobIds :
        /\ cycles[id] # NoCycle
        /\ cycles[id].pc = "social"
        /\ jobs[id] # NoJob
        /\ cycles[id].timeout # jobs[id].timeoutSeconds

\* The number of status updates of a status type among the messages of a
\* segment.
CountStatus(messages, statusType) ==
    Cardinality({i \in DOMAIN messages : messages[i] = status(statusType)})

C15_EmptyPlanDistinguishable ==
    [][\A id \in JobIds :
          /\ (BalancesResolved(id, "none") \/ PlanResolved(id, FALSE)) =>
                /\ CountStatus(emitted'.messages, "deadhand_completed") = 1
                /\ CountStatus(emitted'.messages, "deadhand_error") = 0
          /\ BalancesResolved(id, "throws") =>
                ~BalancesResolved(id, "none")]_vars

\* C16: an arm request whose address is malformed, or whose delegation has a
\* timeout that is not positive, is refused and leaves the scheduler's jobs
\* and timers as they were.
C16_InvalidArmRejected ==
    [][\A u \in RequestAddresses : \A db \in DbOutcomes(u) :
          (/\ InitiateDeadHand(u, db)
           /\ \/ ~isAddress(u)
              \/ /\ getDelegation(u, db).delegation # NoDelegation
                 /\ getDelegation(u, db).delegation.timeout <= 0) =>
              /\ response' # 200
              /\ UNCHANGED <<jobs, scheduledTasks, timers>>]_vars

\* An approval is a call of approve(address,uint256) on the token contract.
IsApproval(tx) == tx.data[1] = "0x095ea7b3"

\* A transaction of a quote for the token.
IsRouteOf(tx, token) ==
    SubSeq(tx.data, 1, 3) = <<"route", toString(token.chainId), token.address>>

\* The zero address, the EEE address and MATIC on Polygon.
GasTokenAllowList == {"0x0000", "0xeeee", "0x1010"}

\* C17: no transaction of a plan, while it is built or once it is returned,
\* is an approval on a token whose address, in lower case, is on the gas-token
\* allow-list.
C17_NoApprovalForGasToken ==
    plan # NoPlan =>
        /\ \A k \in DOMAIN plan.allTransactions :
              IsApproval(plan.allTransactions[k]) =>
                  toLowerCase(plan.allTransactions[k].to)
                      \notin GasTokenAllowList
        /\ "transactions" \in DOMAIN plan.result =>
              \A k \in DOMAIN plan.result.transactions :
                  IsApproval(plan.result.transactions[k]) =>
                      toLowerCase(plan.result.transactions[k].to)
                          \notin GasTokenAllowList

\* A plan was returned that holds the transaction of a quote for a token
\* reported with the EEE address in upper case.
C17_Witness ==
    /\ plan # NoPlan
    /\ "transactions" \in DOMAIN plan.result
    /\ \E i \in DOMAIN plan.tokenBalances :
          /\ plan.tokenBalances[i].address = "0xEEEE"
          /\ plan.log[i] = "quoted"
          /\ \E k \in DOMAIN plan.result.transactions :
                IsRouteOf(plan.result.transactions[k], plan.tokenBalances[i])

\* C13: in the transactions of a plan every approval on a token is followed,
\* later in the list, by the transaction of a quote for a token with that
\* address.
C13_ApprovalBeforeItsIntent ==
    plan # NoPlan =>
        \A k \in DOMAIN plan.allTransactions :
            IsApproval(plan.allTransactions[k]) =>
                \E j \in DOMAIN plan.allTransactions :
                    /\ j > k
                    /\ \E i \in DOMAIN plan.tokenBalances :
                          /\ plan.tokenBalances[i].address =
                                 plan.allTransactions[k].to
                          /\ IsRouteOf(plan.allTransactions[j],
                                       plan.tokenBalances[i])

\* C14: a plan is returned whatever quotes failed; the returned plan holds
\* the transaction of the quote of every token that was quoted one, and it
\* lists every token whose quote failed as failed.
C14_QuoteFailureRecorded ==
    (plan # NoPlan /\ plan.result # NoResult) =>
        \A i \in DOMAIN plan.tokenBalances :
            /\ plan.log[i] = "quoted" =>
                  /\ "transactions" \in DOMAIN plan.result
                  /\ \E k \in DOMAIN plan.result.transactions :
                        IsRouteOf(plan.result.transactions[k],
                                  plan.tokenBalances[i])
            /\ plan.log[i] = "failed" =>
                  /\ "failed" \in DOMAIN plan.result
                  /\ plan.tokenBalances[i] \in plan.result.failed

\* C18: in a returned plan a token that is the target token on Arbitrum was
\* passed over, is listed as skipped and has no transaction, and a token with
\* the target's address on another chain was not passed over.
C18_TargetTokenSkipped ==
    (plan # NoPlan /\ plan.result # NoResult) =>
        \A i \in DOMAIN plan.tokenBalances :
            LET token == plan.tokenBalances[i]
            IN  /\ (isTargetToken(token) /\ token.chainId = Arbitrum) =>
                      /\ plan.log[i] = "skipped"
                      /\ \A k \in DOMAIN plan.allTransactions :
                            /\ ~IsRouteOf(plan.allTransactions[k], token)
                            /\ IsApproval(plan.allTransactions[k]) =>
                                  plan.allTransactions[k].to # token.address
                      /\ "skipped" \in DOMAIN plan.result
                      /\ token \in plan.result.skipped
                /\ (isTargetToken(token) /\ token.chainId # Arbitrum) =>
                      plan.log[i] # "skipped"

\* The pending timers of a job.
TimersOf(id) == {h \in BagToSet(timers) : h.id = id}

\* C21: a callback starts only for a job that is registered, not executed
\* and not started before, and the start uses up the job's only timer, which
\* is never set again once the second the job was scheduled in has passed; a
\* cancel of a job leaves it no timer, so its callback never starts; and the
\* timers that are due within the time modelled do not stay pending: in the
\* end each of their jobs was cancelled or had its callback started.
C21_CallbackOnceUnlessCancelled ==
    /\ [][/\ \A h \in BagToSet(timers) :
               TimerFire(h) =>
                   /\ jobs[h.id] # NoJob
                   /\ ~jobs[h.id].isExecuted
                   /\ scheduledTasks[h.id] = h
                   /\ TimersOf(h.id) = {h}
                   /\ CopiesIn(h, timers) = 1
                   /\ TimersOf(h.id)' = {}
          /\ \A id \in JobIds :
               /\ (TimersOf(id) = {} /\ now > id[2]) => TimersOf(id)' = {}
               /\ (CancelJob(id) /\ TimersOf(id) # {}) =>
                      /\ TimersOf(id)' = {}
                      /\ cycles'[id] = NoCycle]_vars
    /\ <>[](\A h \in BagToSet(timers) : h.due > MaxTime)

\* A callback is running for a job that was not cancelled: the job is
\* registered and its timer is used up.
C21_Witness ==
    \E id \in JobIds :
        /\ cycles[id] # NoCycle
        /\ ~cycles[id].cancelled
        /\ jobs[id] # NoJob
        /\ TimersOf(id) = {}

\* C22: the activity check of a fire is over before the window it evaluates
\* has gone by since the fire: no callback is still in its check (awaiting the
\* on-chain query or the social query) a full timeout after its timer fired.
C22_CheckResolvesWithinWindow ==
    \A id \in JobIds :
        (cycles[id] # NoCycle /\ cycles[id].pc \in {"onchain", "social"}) =>
            now < cycles[id].fireTime + cycles[id].timeout

\* C24: every transaction of a quote answers a request for the full balance
\* of a token of the list, sent by the user and received by the beneficiary;
\* and every approval is a call on the contract of a token of the list that
\* approves that token's full balance to the approval address the token's
\* quote returned.
C24_FullBalanceToBeneficiary ==
    plan # NoPlan =>
        \A k \in DOMAIN plan.allTransactions :
            LET tx == plan.allTransactions[k]
            IN  \E i \in DOMAIN plan.log :
                    LET token == plan.tokenBalances[i]
                    IN  IF IsApproval(tx)
                        THEN /\ tx.to = token.address
                             /\ tx.data[3] = token.balance
                             /\ plan.answers[i].approvalAddress # ""
                             /\ tx.data[2] = plan.answers[i].approvalAddress
                        ELSE /\ IsRouteOf(tx, token)
                             /\ tx.data[4] = token.balance
                             /\ tx.data[5] = plan.userAddress
                             /\ tx.data[8] = plan.beneficiaryAddress

\* C23: in a returned plan every token the wallet holds with a balance above
\* zero, on a network whose balances could be fetched, that is not the target
\* token on Arbitrum, was put to the quote service, and has the transaction of
\* its quote in the plan when the quote carried one.
C23_EveryHoldingSwept ==
    (plan # NoPlan /\ plan.result # NoResult) =>
        \A j \in DOMAIN plan.wallet :
            LET held == plan.wallet[j]
            IN  (/\ parseFloat(held.balance) > 0
                 /\ plan.served[held.chainId]
                 /\ ~(isTargetToken(held) /\ held.chainId = Arbitrum)) =>
                    \E i \in DOMAIN plan.tokenBalances :
                        /\ plan.tokenBalances[i] = held
                        /\ plan.log[i] # "skipped"
                        /\ plan.log[i] = "quoted" =>
                              /\ "transactions" \in DOMAIN plan.result
                              /\ \E k \in DOMAIN plan.result.transactions :
                                    IsRouteOf(plan.result.transactions[k], held)

\* C25: a job installed because activity was found has a deadline of the full
\* timeout that starts inside the window of the job that fired (at the second
\* of the activity, before that window's end), and the job that fired has no
\* timer left.
C25_DeadlineStartsInsideWindow ==
    \A id \in JobIds :
        (jobs[id] # NoJob /\ jobs[id].resetFrom >= 0) =>
            /\ jobs[id].scheduledAt - jobs[id].timeoutSeconds
                   < jobs[id].resetFrom
            /\ \A h \in BagToSet(timers) :
                   h.id[1] = id[1] => h.id[2] >= jobs[id].resetFrom

\* C26: once DELETE /jobs/:jobId has answered success for a job whose callback
\* is running, and while the user has no outstanding job, the user gets an
\* outstanding job only by an arm request that succeeds, and no step puts the
\* user on the sweep path: the callback neither starts building a plan nor
\* ends with the switch triggered.
C26_CancelStopsRunningCheck ==
    [][\A id \in JobIds :
          (/\ cycles[id] # NoCycle
           /\ cycles[id].cancelled
           /\ Outstanding(id[1]) = {}) =>
              /\ Outstanding(id[1])' # {} => arms' = arms + 1
              /\ triggered'[id[1]] => triggered[id[1]]
              /\ (cycles'[id] # NoCycle /\ cycles'[id].pc = "plan") =>
                     cycles[id].pc = "plan"]_vars

\* C27: an arm request for a well-formed address whose delegation is found,
\* made while a job that is not executed exists for an address that differs
\* from it at most in letter case, is answered 409 and registers no job.
C27_ArmIgnoresLetterCase ==
    [][\A u \in Spellings : \A db \in DbOutcomes(u) :
          (/\ InitiateDeadHand(u, db)
           /\ isAddress(u)
           /\ ~db.throws
           /\ db.delegation # NoDelegation
           /\ \E id \in DOMAIN jobs :
                 /\ jobs[id] # NoJob
                 /\ ~jobs[id].isExecuted
                 /\ toLowerCase(jobs[id].userAddress) = toLowerCase(u)) =>
              /\ response' = 409
              /\ jobs' = jobs]_vars

\* C28: determineActivityFromAIResponse returns false for the empty response
\* and for a response whose lower-cased text contains a no-activity
\* indicator, whatever activity indicators it also contains; it returns true
\* when the lower-cased text contains no no-activity indicator and at least
\* one activity indicator, and false in every other case.
C28_NoActivityIndicatorWins ==
    plan.returned # <<>> =>
        LET text == lowered(plan.aiResponse)
            denies == \E ind \in noActivityIndicators : includes(text, ind)
            affirms == \E ind \in activityIndicators : includes(text, ind)
        IN  /\ plan.aiResponse = <<>> => plan.returned = <<FALSE>>
            /\ denies => plan.returned = <<FALSE>>
            /\ (~denies /\ affirms) => plan.returned = <<TRUE>>
            /\ (~denies /\ ~affirms) => plan.returned = <<FALSE>>

\* The function has returned false for a response that holds a no-activity
\* indicator spelled with a capital and an activity indicator as well.
C28_Witness ==
    /\ plan.returned = <<FALSE>>
    /\ plan.aiResponse = <<"No", "transfer", "found">>
    /\ includes(lowered(plan.aiResponse), <<"no", "transfer">>)
    /\ includes(lowered(plan.aiResponse), <<"transfer", "found">>)

\* C29: the ten-iteration loop makes at most ten model calls; it has thrown
\* the circuit-breaker error exactly when the last three model calls failed
\* in a row; the counter is zero whenever the last model call succeeded and
\* never exceeds the model calls that failed in a row, whatever tool calls
\* failed; and the call ends in no other way than the circuit-breaker error
\* or a conversation_complete result.
C29_BreakerCountsModelCalls ==
    /\ plan.calls <= conversationIterations
    /\ (plan.result = "circuit_breaker") <=>
           (plan.streak = maxConsecutiveFailures)
    /\ plan.streak = 0 => plan.consecutiveFailures = 0
    /\ plan.consecutiveFailures <= plan.streak
    /\ plan.result \in {"pending", "conversation_complete", "circuit_breaker"}

\* C30: the five-iteration loop never reaches the statement after the loop.
C30_AfterLoopUnreachable ==
    plan.result # "unexpected"

\* C31: once stop has run cleanupAllJobs the scheduler holds no job and no
\* timer handle, and no timer is pending, so that nothing fires; this stays
\* so whatever the callbacks that were in flight go on to do.
C31_NothingScheduledAfterStop ==
    plan = Stopped =>
        /\ \A id \in DOMAIN jobs :
               jobs[id] = NoJob /\ scheduledTasks[id] = NoHandle
        /\ timers = EmptyBag

\* C32: every socket a dead-hand event for a user is sent to is open and has
\* registered with that user's address, letter case apart; a socket whose
\* registration names another user is not among them.
C32_EventsOnlyToTheUsersSockets ==
    \A ws \in plan.delivered :
        /\ plan.open[ws]
        /\ plan.registeredAs[ws] # ""
        /\ toLowerCase(plan.registeredAs[ws]) = toLowerCase(emitted.userAddress)

\* An event for 0xaa has gone to a socket that registered as 0xAA and not to
\* the open socket that registered as 0xbb.
C32_Witness ==
    /\ emitted.userAddress = "0xaa"
    /\ emitted.messages = <<transactionsPrepared>>
    /\ plan.delivered = {"s1"}
    /\ plan.registeredAs["s1"] = "0xAA"
    /\ plan.registeredAs["s2"] = "0xbb"
    /\ plan.open["s2"]

\* C33: in a returned bundle the chain id reported with it is the chain of
\* the source token of every swap/bridge transaction in it.
C33_BundleChainIsIntentChain ==
    (plan # NoPlan /\ plan.result # NoResult
     /\ "transactions" \in DOMAIN plan.result) =>
        \A k \in DOMAIN plan.result.transactions :
            \A i \in DOMAIN plan.tokenBalances :
                IsRouteOf(plan.result.transactions[k], plan.tokenBalances[i])
                    => plan.result.chainId = plan.tokenBalances[i].chainId

\* C34: the social check has reported activity for the user only if some
\* entity of the space names the user and is no older than the window of
\* ceil(timeoutSeconds / 3600) hours.
C34_SocialActivityIsTheUsersAndRecent ==
    plan.returned = <<TRUE>> =>
        \E i \in DOMAIN plan.entities :
            /\ isTwitterActivity(plan.entities[i])
            /\ extractUserAddressFromEntity(plan.entities[i]) = plan.userAddress
            /\ plan.entities[i].age <= hoursBackOf(plan.timeoutSeconds)

\* C35: what fetchTokenBalances returned holds only tokens of the wallet with
\* a balance above zero on a network whose query was served, and holds every
\* such token, whether or not the query of the other network failed.
C35_ExactlyThePositiveBalances ==
    (plan # NoPlan /\ "fetched" \in DOMAIN plan /\ plan.fetched) =>
        /\ \A i \in DOMAIN plan.tokenBalances :
               /\ parseFloat(plan.tokenBalances[i].balance) > 0
               /\ plan.served[plan.tokenBalances[i].chainId]
               /\ \E j \in DOMAIN plan.wallet :
                      plan.wallet[j] = plan.tokenBalances[i]
        /\ \A j \in DOMAIN plan.wallet :
               (/\ parseFloat(plan.wallet[j].balance) > 0
                /\ plan.served[plan.wallet[j].chainId]) =>
                   \E i \in DOMAIN plan.tokenBalances :
                       plan.tokenBalances[i] = plan.wallet[j]

\* C36: for every token exactly one monitoring interval runs while some open
\* socket is subscribed to the token, and none runs otherwise: started on
\* the first subscription, never duplicated, stopped when the last
\* subscriber unsubscribes or disconnects.
C36_IntervalExactlyWhileSubscribed ==
    \A t \in MonitoredTokens :
        plan.running[t] =
            IF \E ws \in Sockets : plan.open[ws] /\ t \in plan.subscribed[ws]
            THEN 1 ELSE 0

\* C37: the jobs map and the scheduledTasks map have the same key set in
\* every state, before and after the stop of the server: a job id is
\* registered exactly when a timer handle is stored under it.
C37_JobsAndHandlesShareKeys ==
    \A jobId \in DOMAIN jobs :
        (jobs[jobId] # NoJob) <=> (scheduledTasks[jobId] # NoHandle)

\* The server has stopped after a second arm request had replaced the job of
\* the first, with a timer callback still in progress.
C37_Witness ==
    /\ plan = Stopped
    /\ arms > 1
    /\ \E jobId \in DOMAIN cycles : cycles[jobId] # NoCycle

\* C38: getDeadHandConfig makes at most 3 attempts; every attempt before the
\* last one failed, so nothing follows an attempt that completed, with a row
\* or without one; it has returned exactly when the last attempt completed,
\* with the row of the lower-cased address or null; it has thrown only after
\* 3 failed attempts.
C38_AtMostThreeAttempts ==
    LET failed(i) == plan.log[i] \in {"connect failed", "query failed"}
        n == Len(plan.log)
    IN  /\ plan.attempt <= maxRetries
        /\ n <= maxRetries
        /\ \A i \in 1..(n - 1) : failed(i)
        /\ plan.at = "returned" <=> (n > 0 /\ ~failed(n))
        /\ plan.at = "returned" =>
               plan.value = IF toLowerCase(plan.userAddress) \in plan.configs
                            THEN configRow(toLowerCase(plan.userAddress))
                            ELSE NoConfig
        /\ plan.at = "thrown" => (n = maxRetries /\ \A i \in 1..n : failed(i))
        /\ (n = maxRetries /\ \A i \in 1..n : failed(i)) => plan.at = "thrown"

\* The call has returned null for a missing row on its third attempt, after
\* two failed ones.
C38_Witness ==
    /\ plan.at = "returned"
    /\ plan.value = NoConfig
    /\ Len(plan.log) = maxRetries
    /\ plan.log[maxRetries] = "no row"

=============================================================================
